---- MODULE Spec2Model ----
(***************************************************************************)
(* Verification model of the CovenantSQL core:                             *)
(*   - storage.Storage, the two-phase-commit participant over sqlite       *)
(*     (src/crypto/kms/privatekeystore.go, second half: package storage);  *)
(*   - blockproducer.DBService, the coordinator's database service         *)
(*     (src/unnamed/part_000).                                             *)
(***************************************************************************)
EXTENDS Integers, Sequences, FiniteSets, TLC

\* ------------------------------------------------------------------ bounds
\* Number of goroutines calling into one Storage concurrently.
NThreads == 2
\* Longest query list carried by an ExecLog.
MaxLen == 3

Threads == 1..NThreads
ConnectionIDs == {0, 1}
SeqNos == {0, 1}
Timestamps == {0}
Stmts == {"Q1", "Q2", "BadSQL"}

\* TxID{ConnectionID, SeqNo, Timestamp}
TxIDs == [ConnectionID : ConnectionIDs, SeqNo : SeqNos, Timestamp : Timestamps]
\* the zero value of TxID, the id field of a fresh Storage
ZeroTxID == [ConnectionID |-> 0, SeqNo |-> 0, Timestamp |-> 0]

Range(f) == {f[x] : x \in DOMAIN f}

\* the query lists of the ExecLogs: no statement twice, at most MaxLen statements
RECURSIVE SeqsUpTo(_)
SeqsUpTo(n) == IF n = 0 THEN {<<>>}
               ELSE LET S == SeqsUpTo(n - 1)
                    IN  S \cup {Append(s, q) : s \in {x \in S : Len(x) = n - 1}, q \in Stmts}
QueryLists == {s \in SeqsUpTo(MaxLen) : Cardinality(Range(s)) = Len(s)}

\* the nil *sql.Tx
NoTx == 0
NoThread == 0

VARIABLES
    mu,          \* Storage's embedded sync.Mutex: the holder, or NoThread
    s_tx,        \* Storage.tx: handle of the current tx, or NoTx
    s_id,        \* Storage.id
    s_queries,   \* Storage.queries (nil is <<>>)
    sqlTx,       \* the SQL engine: open transaction handle -> statements executed in it
    committed,   \* the SQL engine: statements whose effects are durable
    prepared,    \* history: the query list of the last Prepare that returned nil for
                 \* the transaction in progress
    th           \* per goroutine: position in Prepare/Commit/Rollback and its arguments

storageVars == <<mu, s_tx, s_id, s_queries, sqlTx, committed, prepared, th>>

\* pc: position; held: past s.Lock(); op, id, queries: the call and its ExecLog;
\* sawTx: what `s.tx != nil` read; trace: statements ExecContext ran; ret: the error
IdleThread == [pc |-> "idle", held |-> FALSE, op |-> "none", id |-> ZeroTxID,
               queries |-> <<>>, sawTx |-> FALSE, trace |-> <<>>, ret |-> "none"]

\* New(dsn): tx nil, id the zero TxID, queries nil
StorageInit ==
    /\ mu = NoThread
    /\ s_tx = NoTx
    /\ s_id = ZeroTxID
    /\ s_queries = <<>>
    /\ sqlTx = <<>>
    /\ committed = {}
    /\ prepared = <<>>
    /\ th = [t \in Threads |-> IdleThread]

\* equalTxID(x, y)
equalTxID_ConnOnly(x, y) == x.ConnectionID = y.ConnectionID
equalTxID(x, y) ==
    x.ConnectionID = y.ConnectionID /\ x.SeqNo = y.SeqNo /\ x.Timestamp = y.Timestamp

\* s.Lock() can be passed
MutexFree_NoLock == TRUE
MutexFree == mu = NoThread

\* the engine's handle for a new transaction
FreshTx == CHOOSE h \in 1..(NThreads + 2) : h \notin (DOMAIN sqlTx) \cup {s_tx}

Without(f, h) == [x \in (DOMAIN f) \ {h} |-> f[x]]
TxOpen(h) == h \in DOMAIN sqlTx

\* wb.(*ExecLog) fails (the same first lines of Prepare, Commit and Rollback): the
\* call returns before taking the lock
BadBatch(t) ==
    /\ th[t].pc = "idle"
    /\ th' = [th EXCEPT ![t] = [IdleThread EXCEPT !.pc = "ret", !.ret = "BadBatch"]]
    /\ UNCHANGED <<mu, s_tx, s_id, s_queries, sqlTx, committed, prepared>>

\* a call with an *ExecLog passes s.Lock()
Lock(t) ==
    /\ th[t].pc = "idle"
    /\ MutexFree
    /\ \E op \in {"Prepare", "Commit", "Rollback"}, id \in TxIDs, qs \in QueryLists :
         \* Commit and Rollback never read el.Queries: their batch is left empty
         /\ op # "Prepare" => qs = <<>>
         /\ th' = [th EXCEPT ![t] = [IdleThread EXCEPT !.pc = "check", !.held = TRUE,
                                                        !.op = op, !.id = id, !.queries = qs]]
    /\ mu' = t
    /\ UNCHANGED <<s_tx, s_id, s_queries, sqlTx, committed, prepared>>

\* Prepare, `if s.tx != nil { ... }`
PrepareCheck_KeepOld(t) ==
    /\ th[t].pc = "check" /\ th[t].op = "Prepare"
    /\ IF s_tx # NoTx
       THEN IF equalTxID(s_id, th[t].id)
            THEN /\ prepared' = th[t].queries
                 /\ th' = [th EXCEPT ![t].pc = "ret", ![t].ret = "ok", ![t].sawTx = TRUE]
            ELSE /\ th' = [th EXCEPT ![t].pc = "ret", ![t].ret = "InconsistentState",
                                     ![t].sawTx = TRUE]
                 /\ UNCHANGED prepared
       ELSE /\ th' = [th EXCEPT ![t].pc = "begin"]
            /\ UNCHANGED prepared
    /\ UNCHANGED <<mu, s_tx, s_id, s_queries, sqlTx, committed>>
PrepareCheck(t) ==
    /\ th[t].pc = "check" /\ th[t].op = "Prepare"
    /\ IF s_tx # NoTx
       THEN IF equalTxID(s_id, th[t].id)
            THEN /\ s_queries' = th[t].queries
                 /\ prepared' = th[t].queries
                 /\ th' = [th EXCEPT ![t].pc = "ret", ![t].ret = "ok", ![t].sawTx = TRUE]
            ELSE /\ th' = [th EXCEPT ![t].pc = "ret", ![t].ret = "InconsistentState",
                                     ![t].sawTx = TRUE]
                 /\ UNCHANGED <<s_queries, prepared>>
       ELSE /\ th' = [th EXCEPT ![t].pc = "begin"]
            /\ UNCHANGED <<s_queries, prepared>>
    /\ UNCHANGED <<mu, s_tx, s_id, sqlTx, committed>>

\* Prepare, `s.tx, err = s.db.BeginTx(ctx, nil)` and what follows
PrepareBegin(t) ==
    /\ th[t].pc = "begin"
    /\ \/ \* BeginTx fails: s.tx is assigned nil
          /\ s_tx' = NoTx
          /\ th' = [th EXCEPT ![t].pc = "ret", ![t].ret = "BeginError"]
          /\ UNCHANGED <<s_id, s_queries, sqlTx, prepared>>
       \/ /\ s_tx' = FreshTx
          /\ sqlTx' = [h \in (DOMAIN sqlTx) \cup {FreshTx} |->
                          IF h = FreshTx THEN <<>> ELSE sqlTx[h]]
          /\ s_id' = th[t].id
          /\ s_queries' = th[t].queries
          /\ prepared' = th[t].queries
          /\ th' = [th EXCEPT ![t].pc = "ret", ![t].ret = "ok"]
    /\ UNCHANGED <<mu, committed>>

\* Commit, `if s.tx != nil { if equalTxID(...) {`
CommitCheck_NoIDCheck(t) ==
    /\ th[t].pc = "check" /\ th[t].op = "Commit"
    /\ th' = [th EXCEPT ![t] =
                 IF s_tx = NoTx THEN [@ EXCEPT !.pc = "ret", !.ret = "NotPrepared"]
                 ELSE [@ EXCEPT !.pc = "exec", !.sawTx = TRUE]]
    /\ UNCHANGED <<mu, s_tx, s_id, s_queries, sqlTx, committed, prepared>>
CommitCheck(t) ==
    /\ th[t].pc = "check" /\ th[t].op = "Commit"
    /\ th' = [th EXCEPT ![t] =
                 IF s_tx = NoTx THEN [@ EXCEPT !.pc = "ret", !.ret = "NotPrepared"]
                 ELSE IF equalTxID(s_id, th[t].id) THEN [@ EXCEPT !.pc = "exec", !.sawTx = TRUE]
                 ELSE [@ EXCEPT !.pc = "ret", !.ret = "InconsistentState", !.sawTx = TRUE]]
    /\ UNCHANGED <<mu, s_tx, s_id, s_queries, sqlTx, committed, prepared>>

\* the statement the Commit loop hands to ExecContext next
NextQuery(t) == s_queries[Len(th[t].trace) + 1]

\* Commit, one iteration of `for _, q := range s.queries`
CommitExec_NoClear(t) ==
    /\ th[t].pc = "exec"
    /\ Len(th[t].trace) < Len(s_queries)
    /\ LET q == NextQuery(t) IN
         IF TxOpen(s_tx) /\ q # "BadSQL"
         THEN /\ sqlTx' = [sqlTx EXCEPT ![s_tx] = Append(@, q)]
              /\ th' = [th EXCEPT ![t].trace = Append(@, q)]
              /\ UNCHANGED <<s_tx, s_queries>>
         ELSE /\ sqlTx' = Without(sqlTx, s_tx)
              /\ th' = [th EXCEPT ![t].pc = "ret", ![t].ret = "SQLError"]
              /\ UNCHANGED <<s_tx, s_queries>>
    /\ UNCHANGED <<mu, s_id, committed, prepared>>
CommitExec(t) ==
    /\ th[t].pc = "exec"
    /\ Len(th[t].trace) < Len(s_queries)
    /\ LET q == NextQuery(t) IN
         IF TxOpen(s_tx) /\ q # "BadSQL"
         THEN /\ sqlTx' = [sqlTx EXCEPT ![s_tx] = Append(@, q)]
              /\ th' = [th EXCEPT ![t].trace = Append(@, q)]
              /\ UNCHANGED <<s_tx, s_queries>>
         ELSE \* ExecContext fails: s.tx.Rollback(); s.tx = nil; s.queries = nil
              /\ sqlTx' = Without(sqlTx, s_tx)
              /\ s_tx' = NoTx
              /\ s_queries' = <<>>
              /\ th' = [th EXCEPT ![t].pc = "ret", ![t].ret = "SQLError"]
    /\ UNCHANGED <<mu, s_id, committed, prepared>>

\* Commit, after the loop: s.tx.Commit() (its error is dropped); s.tx = nil; s.queries = nil
CommitFinish(t) ==
    /\ th[t].pc = "exec"
    /\ Len(th[t].trace) >= Len(s_queries)
    /\ \/ /\ TxOpen(s_tx)
          /\ committed' = committed \cup Range(sqlTx[s_tx])
       \/ \* the engine's commit fails (always so when the tx is already done)
          /\ UNCHANGED committed
    /\ sqlTx' = Without(sqlTx, s_tx)
    /\ s_tx' = NoTx
    /\ s_queries' = <<>>
    /\ th' = [th EXCEPT ![t].pc = "ret", ![t].ret = "ok"]
    /\ UNCHANGED <<mu, s_id, prepared>>

\* Rollback, the body under the lock
RollbackBody_ClearID(t) ==
    /\ th[t].pc = "check" /\ th[t].op = "Rollback"
    /\ IF ~equalTxID(s_id, th[t].id)
       THEN /\ th' = [th EXCEPT ![t].pc = "ret", ![t].ret = "InconsistentState",
                                ![t].sawTx = (s_tx # NoTx)]
            /\ UNCHANGED <<s_tx, s_id, s_queries, sqlTx>>
       ELSE /\ th' = [th EXCEPT ![t].pc = "ret", ![t].ret = "ok", ![t].sawTx = (s_tx # NoTx)]
            /\ sqlTx' = Without(sqlTx, s_tx)
            /\ s_tx' = NoTx
            /\ s_id' = ZeroTxID
            /\ s_queries' = <<>>
    /\ UNCHANGED <<mu, committed, prepared>>
RollbackBody_NeedsTx(t) ==
    /\ th[t].pc = "check" /\ th[t].op = "Rollback"
    /\ IF ~equalTxID(s_id, th[t].id)
       THEN /\ th' = [th EXCEPT ![t].pc = "ret", ![t].ret = "InconsistentState",
                                ![t].sawTx = (s_tx # NoTx)]
            /\ UNCHANGED <<s_tx, s_queries, sqlTx>>
       ELSE IF s_tx # NoTx
            THEN /\ th' = [th EXCEPT ![t].pc = "ret", ![t].ret = "ok", ![t].sawTx = TRUE]
                 /\ sqlTx' = Without(sqlTx, s_tx)
                 /\ s_tx' = NoTx
                 /\ s_queries' = <<>>
            ELSE /\ th' = [th EXCEPT ![t].pc = "ret", ![t].ret = "NotPrepared"]
                 /\ UNCHANGED <<s_tx, s_queries, sqlTx>>
    /\ UNCHANGED <<mu, s_id, committed, prepared>>
RollbackBody(t) ==
    /\ th[t].pc = "check" /\ th[t].op = "Rollback"
    /\ IF ~equalTxID(s_id, th[t].id)
       THEN /\ th' = [th EXCEPT ![t].pc = "ret", ![t].ret = "InconsistentState",
                                ![t].sawTx = (s_tx # NoTx)]
            /\ UNCHANGED <<s_tx, s_queries, sqlTx>>
       ELSE /\ th' = [th EXCEPT ![t].pc = "ret", ![t].ret = "ok", ![t].sawTx = (s_tx # NoTx)]
            /\ IF s_tx # NoTx
               THEN /\ sqlTx' = Without(sqlTx, s_tx)
                    /\ s_tx' = NoTx
                    /\ s_queries' = <<>>
               ELSE UNCHANGED <<s_tx, s_queries, sqlTx>>
    /\ UNCHANGED <<mu, s_id, committed, prepared>>

\* the call returns; the deferred s.Unlock() runs if the lock was taken
Unlock(t) ==
    /\ th[t].pc = "ret"
    /\ mu' = IF th[t].held THEN NoThread ELSE mu
    /\ th' = [th EXCEPT ![t] = IdleThread]
    /\ prepared' = IF th[t].held /\ s_tx = NoTx THEN <<>> ELSE prepared
    /\ UNCHANGED <<s_tx, s_id, s_queries, sqlTx, committed>>

\* The context given to BeginTx is cancelled: database/sql rolls the transaction
\* back on its own goroutine.  Storage is not told and takes no lock for it.
CtxCancel ==
    /\ \E h \in DOMAIN sqlTx : sqlTx' = Without(sqlTx, h)
    /\ UNCHANGED <<mu, s_tx, s_id, s_queries, committed, prepared, th>>

\* ------------------------------------------------- Storage: openDB's connection cache

\* Number of Storage values New builds.
MaxStorages == 3
StorageIDs == 1..MaxStorages
\* goroutines calling New
Openers == {1, 2}

\* the DSNs New is called with, as NewDSN parses them (valid FALSE: NewDSN returns
\* an error); a parameter the DSN does not carry reads as ""
DSNs == { [valid |-> TRUE, filename |-> "a.db", mode |-> "", cache |-> ""],
          [valid |-> TRUE, filename |-> ":memory:", mode |-> "", cache |-> ""],
          [valid |-> TRUE, filename |-> ":memory:", mode |-> "", cache |-> "shared"],
          [valid |-> TRUE, filename |-> "m.db", mode |-> "memory", cache |-> ""],
          [valid |-> FALSE, filename |-> "", mode |-> "", cache |-> ""] }

VARIABLES
    index_db,    \* index.db: filename -> the cached *sql.DB
    sqlDB,       \* every *sql.DB sql.Open returned: "open", or "closed" after Close
    storages,    \* every Storage New returned: its dsn, its db, and whether its
                 \* owner has called Close on it
    nw           \* per goroutine: position in New/openDB and its locals

cacheVars == <<index_db, sqlDB, storages, nw>>

IdleOpener == [pc |-> "idle", dsn |-> <<>>, ret |-> "none"]

\* the process starts with an empty cache and no Storage
CacheInit ==
    /\ index_db = <<>>
    /\ sqlDB = <<>>
    /\ storages = <<>>
    /\ nw = [t \in Openers |-> IdleOpener]

\* openDB's test for a database that is in memory and private
InMemoryPrivate(d) ==
    (d.filename = ":memory:" \/ d.mode = "memory") /\ d.cache # "shared"

\* sql.Open: a new *sql.DB
NewSQLDB == Cardinality(DOMAIN sqlDB) + 1
\* &Storage{dsn: dsn, db: db}
NewStorage == Cardinality(DOMAIN storages) + 1
WithStorage(d, h) ==
    [s \in (DOMAIN storages) \cup {NewStorage} |->
        IF s = NewStorage THEN [dsn |-> d, db |-> h, closed |-> FALSE]
        ELSE storages[s]]
WithSQLDB(h) ==
    [g \in (DOMAIN sqlDB) \cup {h} |-> IF g = h THEN "open" ELSE sqlDB[g]]

\* New(dsn) up to the end of openDB's locked lookup: NewDSN fails, or the database
\* is private and opened afresh, or the cache has the filename and New returns a
\* Storage on the cached handle, or the lookup misses
New(t, d) ==
    /\ nw[t].pc = "idle"
    /\ Cardinality(DOMAIN storages)
         + Cardinality({u \in Openers : nw[u].pc = "miss"}) < MaxStorages
    /\ IF ~d.valid
       THEN /\ nw' = [nw EXCEPT ![t] = [IdleOpener EXCEPT !.dsn = d, !.ret = "err"]]
            /\ UNCHANGED <<index_db, sqlDB, storages>>
       ELSE IF InMemoryPrivate(d)
       THEN /\ sqlDB' = WithSQLDB(NewSQLDB)
            /\ storages' = WithStorage(d, NewSQLDB)
            /\ nw' = [nw EXCEPT ![t] = [IdleOpener EXCEPT !.dsn = d, !.ret = "nil"]]
            /\ UNCHANGED index_db
       ELSE IF d.filename \in DOMAIN index_db
       THEN /\ storages' = WithStorage(d, index_db[d.filename])
            /\ nw' = [nw EXCEPT ![t] = [IdleOpener EXCEPT !.dsn = d, !.ret = "nil"]]
            /\ UNCHANGED <<index_db, sqlDB>>
       ELSE /\ nw' = [nw EXCEPT ![t] = [pc |-> "miss", dsn |-> d, ret |-> "none"]]
            /\ UNCHANGED <<index_db, sqlDB, storages>>

\* openDB after a miss: sql.Open, index.db[d.filename] = db under the lock, and New
\* returns the Storage
openDB(t) ==
    /\ nw[t].pc = "miss"
    /\ sqlDB' = WithSQLDB(NewSQLDB)
    /\ index_db' = [f \in (DOMAIN index_db) \cup {nw[t].dsn.filename} |->
                       IF f = nw[t].dsn.filename THEN NewSQLDB ELSE index_db[f]]
    /\ storages' = WithStorage(nw[t].dsn, NewSQLDB)
    /\ nw' = [nw EXCEPT ![t] = [@ EXCEPT !.pc = "idle", !.ret = "nil"]]

\* Storage.Close: s.db.Close()
Close(s) ==
    /\ s \in DOMAIN storages
    /\ ~storages[s].closed
    /\ sqlDB' = [sqlDB EXCEPT ![storages[s].db] = "closed"]
    /\ storages' = [storages EXCEPT ![s].closed = TRUE]
    /\ UNCHANGED <<index_db, nw>>

\* ------------------------------------------------- DBService (block producer)

\* Largest replica count a request asks for (ResourceMeta.Node).
MaxN == 2
\* Number of miner nodes on the consistent-hashing ring.
NRing == 3
\* Number of database ids the proof-of-work stream can yield.
MaxDB == 2

\* DefaultAllocationRounds
AllocationRounds == 3

Nodes == 1..NRing
DBIDs == 1..MaxDB
\* goroutines serving BPDB requests
Calls == {1, 2}
\* ResourceMeta.Memory of the requests, and what a node's
\* node_memory_free_bytes_total can report (collected FALSE: getMetric fails)
MemoryFloors == {1}
FreeMemory == {0, 1, 2}
MetricValues == {[collected |-> FALSE, value |-> 0]}
                \cup {[collected |-> TRUE, value |-> v] : v \in FreeMemory}
\* what CallNode returns
RPCErrors == {"nil", "err"}

VARIABLES
    serviceMap,  \* DBService.ServiceMap: database id -> the instance's peers
    cd           \* per BPDB request in flight: its position and locals

svcVars == <<serviceMap, cd>>

\* pc: position; op: "create" or "drop"; db: the database id; n: ResourceMeta.Node;
\* servers, roles, leader, term: the peers built (server ids, their roles, the id
\* of the server Peers.Leader points to, Peers.Term); phase: 1 forward request, 2 compensating one;
\* pending: nodes whose goroutine has not yet sent to errCh; ch1, ch2: errCh of
\* the forward and of the compensating batch; err: what the forward batch
\* returned; result: what the request returns; memory: ResourceMeta.Memory;
\* metric: what NodeMetrics reported during allocateNodes; hist: one record per
\* round of the allocation loop (see Round)
IdleCall == [pc |-> "idle", op |-> "none", db |-> 0, n |-> 0, servers |-> <<>>,
             leader |-> 0, phase |-> 0, pending |-> {}, ch1 |-> <<>>, ch2 |-> <<>>,
             err |-> "nil", result |-> "none", roles |-> <<>>, term |-> 0,
             memory |-> 0, metric |-> <<>>, hist |-> <<>>]

SvcInit ==
    /\ serviceMap = <<>>
    /\ cd = [c \in Calls |-> IdleCall]

Min(a, b) == IF a < b THEN a ELSE b

\* Consistent.GetNeighbors(string(dbID), count): up to count nodes, clockwise from
\* the position the key hashes to
GetNeighbors(d, count) ==
    [i \in 1..Min(count, NRing) |-> ((d + i - 2) % NRing) + 1]

\* generateDatabaseID: the first id of the nonce stream that ServiceMap.Get does
\* not find (0: the stream has no such id, the loop keeps waiting)
generateDatabaseID ==
    IF \E d \in DBIDs : d \notin DOMAIN serviceMap
    THEN CHOOSE d \in DBIDs : d \notin DOMAIN serviceMap
                              /\ \A e \in DBIDs : e < d => e \in DOMAIN serviceMap
    ELSE 0

\* getMetric and the memory test of the allocation loop
CanAllocate(memory, metricValue) ==
    metricValue.collected /\ memory < metricValue.value

buildPeers_AllNodes(term, nodes, nAllocated, leaderIdx) ==
    [kind |-> "ok", servers |-> nodes, term |-> term,
     roles |-> [idx \in 1..Len(nodes) |->
                   IF idx = leaderIdx THEN "Leader" ELSE "Follower"],
     leader |-> nodes[leaderIdx]]

\* buildPeers(term, nodes, allocated): Servers has len(allocated) slots and the loop
\* stores one server per element of nodes, so it runs past the end ("panic") when
\* the ring returned more neighbours than were allocated
buildPeers(term, nodes, nAllocated, leaderIdx) ==
    IF Len(nodes) > nAllocated
    THEN [kind |-> "panic", servers |-> <<>>, roles |-> <<>>, leader |-> 0,
          term |-> term]
    ELSE [kind |-> "ok", servers |-> nodes, term |-> term,
          roles |-> [idx \in 1..Len(nodes) |->
                        IF idx = leaderIdx THEN "Leader" ELSE "Follower"],
          leader |-> nodes[leaderIdx]]

\* one round of the allocation loop as it went: curRange asked of the ring, the
\* neighbours it returned, those not in excludeNodes, whether the metrics were
\* checked (FALSE: `continue`), the nodes appended to allocated, and excludeNodes
\* at the end of the round
Round(curRange, nodes, nodeIDs, checked, allocated, excludeNodes) ==
    [curRange |-> curRange, nodes |-> nodes, nodeIDs |-> nodeIDs,
     checked |-> checked, allocated |-> allocated, excludeNodes |-> excludeNodes]

\* what allocateNodes returns (peers or the error), with the rounds it went through
AllocResult(p, hist) ==
    [kind |-> p.kind, servers |-> p.servers, roles |-> p.roles, leader |-> p.leader,
     term |-> p.term, hist |-> hist]
ErrDatabaseAllocation ==
    [kind |-> "AllocationFailed", servers |-> <<>>, roles |-> <<>>, leader |-> 0,
     term |-> 0]

RECURSIVE AllocRound_Widen(_, _, _, _, _, _, _, _, _)
AllocRound_Widen(i, curRange, excludeNodes, hist, lastTerm, d, n, memory, env) ==
    IF i = AllocationRounds
    THEN AllocResult(ErrDatabaseAllocation, hist)
    ELSE LET nodes == GetNeighbors(d, curRange)
             nodeIDs == SelectSeq(nodes, LAMBDA x : x \notin excludeNodes)
             allocated == IF Len(nodeIDs) < n THEN {}
                          ELSE {x \in Range(nodeIDs) : CanAllocate(memory, env.metric[x])}
             excluded == IF Len(nodeIDs) < n THEN excludeNodes
                         ELSE excludeNodes \cup (Range(nodeIDs) \ allocated)
             h == Append(hist, Round(curRange, nodes, nodeIDs, Len(nodeIDs) >= n,
                                     allocated, excluded))
         IN  IF Len(nodeIDs) >= n /\ Cardinality(allocated) >= n
             THEN AllocResult(buildPeers(lastTerm + 1, nodes, n, env.leaderIdx), h)
             ELSE AllocRound_Widen(i + 1, curRange + n, excluded, h, lastTerm, d, n,
                                   memory, env)

\* allocateNodes(lastTerm, dbID, resourceMeta), from round i on
RECURSIVE AllocRound(_, _, _, _, _, _, _, _, _)
AllocRound(i, curRange, excludeNodes, hist, lastTerm, d, n, memory, env) ==
    IF i = AllocationRounds
    THEN AllocResult(ErrDatabaseAllocation, hist)
    ELSE LET nodes == GetNeighbors(d, curRange)
             nodeIDs == SelectSeq(nodes, LAMBDA x : x \notin excludeNodes)
         IN  IF Len(nodeIDs) < n
             THEN \* `continue`: curRange is not widened
                  AllocRound(i + 1, curRange, excludeNodes,
                             Append(hist, Round(curRange, nodes, nodeIDs, FALSE, {},
                                                excludeNodes)),
                             lastTerm, d, n, memory, env)
             ELSE LET allocated == {x \in Range(nodeIDs) : CanAllocate(memory, env.metric[x])}
                      excluded == excludeNodes \cup (Range(nodeIDs) \ allocated)
                      h == Append(hist, Round(curRange, nodes, nodeIDs, TRUE, allocated,
                                              excluded))
                  IN  IF Cardinality(allocated) >= n
                      THEN AllocResult(buildPeers(lastTerm + 1, nodes, n, env.leaderIdx), h)
                      ELSE AllocRound(i + 1, curRange + n, excluded, h, lastTerm, d, n,
                                      memory, env)
allocateNodes(lastTerm, d, n, memory, env) ==
    IF n <= 0
    THEN AllocResult(ErrDatabaseAllocation, <<>>)
    ELSE AllocRound(0, n, {}, <<>>, lastTerm, d, n, memory, env)

\* batchSendSingleSvcReq after wg.Wait(): close(errCh); err = <-errCh
batchResult(errCh) == IF Len(errCh) = 0 THEN "nil" ELSE Head(errCh)

\* the request the batch in progress carries
RequestOp(c) ==
    IF cd[c].phase = 1
    THEN (IF cd[c].op = "create" THEN "CreateDB" ELSE "DropDB")
    ELSE (IF cd[c].op = "create" THEN "DropDB" ELSE "nilRequest")

\* CreateDatabase up to generateDatabaseID
GenerateDatabaseID(c, n) ==
    /\ cd[c].pc = "idle"
    /\ generateDatabaseID # 0
    /\ cd' = [cd EXCEPT ![c] = [IdleCall EXCEPT !.pc = "alloc", !.op = "create",
                                                !.db = generateDatabaseID, !.n = n]]
    /\ UNCHANGED serviceMap

\* CreateDatabase: allocateNodes, generateGenesisBlock, and the goroutines of the
\* forward batch are started
\* (metric: the metrics GetMetrics reports; memory: the request's memory floor;
\* leaderIdx: rand.Intn's pick)
AllocateNodes(c, metric, memory, leaderIdx) ==
    /\ cd[c].pc = "alloc"
    /\ leaderIdx \in 1..(IF cd[c].n = 0 THEN 1 ELSE cd[c].n)
    /\ LET r == allocateNodes(0, cd[c].db, cd[c].n, memory,
                              [metric |-> metric, leaderIdx |-> leaderIdx])
       IN  cd' = [cd EXCEPT ![c] =
                      IF r.kind = "ok"
                      THEN [@ EXCEPT !.pc = "send", !.servers = r.servers,
                                     !.roles = r.roles, !.term = r.term,
                                     !.leader = r.leader, !.phase = 1,
                                     !.pending = Range(r.servers),
                                     !.memory = memory, !.metric = metric,
                                     !.hist = r.hist]
                      ELSE [@ EXCEPT !.pc = "done", !.result = r.kind,
                                     !.memory = memory, !.metric = metric,
                                     !.hist = r.hist]]
    /\ UNCHANGED serviceMap

\* DropDatabase up to the start of the forward batch
DropDatabaseCall(c) ==
    /\ cd[c].pc = "idle"
    /\ \E d \in DBIDs :
         cd' = [cd EXCEPT ![c] =
                  IF d \in DOMAIN serviceMap
                  THEN [IdleCall EXCEPT !.pc = "send", !.op = "drop", !.db = d,
                                        !.servers = serviceMap[d].servers,
                                        !.leader = serviceMap[d].leader, !.phase = 1,
                                        !.pending = Range(serviceMap[d].servers)]
                  ELSE [IdleCall EXCEPT !.pc = "done", !.op = "drop", !.db = d,
                                        !.result = "NoSuchDatabase"]]
    /\ UNCHANGED serviceMap

\* one goroutine of batchSendSingleSvcReq: CallNode(node, "DBS.Update", req) returns
\* and the error is sent to errCh
CallNode(c) ==
    /\ cd[c].pc = "send"
    /\ \E node \in cd[c].pending, e \in RPCErrors :
         cd' = [cd EXCEPT ![c].pending = @ \ {node},
                          ![c].ch1 = IF cd[c].phase = 1 THEN Append(@, e) ELSE @,
                          ![c].ch2 = IF cd[c].phase = 2 THEN Append(@, e) ELSE @]
    /\ UNCHANGED serviceMap

\* batchSendSvcReq: the forward batch returns; on an error the compensating batch
\* is started
ForwardDone(c) ==
    /\ cd[c].pc = "send" /\ cd[c].phase = 1 /\ cd[c].pending = {}
    /\ LET err == batchResult(cd[c].ch1) IN
         cd' = [cd EXCEPT ![c] =
                  IF err # "nil"
                  THEN [@ EXCEPT !.err = err, !.phase = 2, !.pending = Range(cd[c].servers)]
                  ELSE [@ EXCEPT !.err = err, !.pc = "meta"]]
    /\ UNCHANGED serviceMap

\* batchSendSvcReq: the compensating batch returns; the request returns the
\* forward batch's error
RollbackDone(c) ==
    /\ cd[c].pc = "send" /\ cd[c].phase = 2 /\ cd[c].pending = {}
    /\ cd' = [cd EXCEPT ![c].pc = "done", ![c].result = cd[c].err]
    /\ UNCHANGED serviceMap

\* CreateDatabase: s.ServiceMap.Set(instanceMeta)
MapSet(c) ==
    /\ cd[c].pc = "meta" /\ cd[c].op = "create"
    /\ serviceMap' = [d \in (DOMAIN serviceMap) \cup {cd[c].db} |->
                        IF d = cd[c].db
                        THEN [servers |-> cd[c].servers, roles |-> cd[c].roles,
                              leader |-> cd[c].leader, term |-> cd[c].term]
                        ELSE serviceMap[d]]
    /\ cd' = [cd EXCEPT ![c].pc = "done", ![c].result = "ok"]

\* DropDatabase: s.ServiceMap.Delete(req.DatabaseID)
MapDelete(c) ==
    /\ cd[c].pc = "meta" /\ cd[c].op = "drop"
    /\ serviceMap' = Without(serviceMap, cd[c].db)
    /\ cd' = [cd EXCEPT ![c].pc = "done", ![c].result = "ok"]

\* the response is sent to the client
Respond(c) ==
    /\ cd[c].pc = "done"
    /\ cd' = [cd EXCEPT ![c] = IdleCall]
    /\ UNCHANGED serviceMap

\* ------------------------------------------------- DBMS (worker database manager)

\* Number of database ids a worker is asked to serve.
MaxWDB == 3

WorkerDBIDs == 1..MaxWDB
\* goroutines calling the DBMS (the worker's start-up code and its RPC handlers)
Goroutines == {1, 2}
\* *Database values: one per NewDatabase that succeeded and is still referenced
Handles == 1..(MaxWDB + Cardinality(Goroutines))
NoDB == 0
\* the instance lists BP.GetNodeDatabases can return: each database once
InstanceLists ==
    {l \in UNION {[1..k -> WorkerDBIDs] : k \in 0..MaxWDB} :
        \A i, j \in DOMAIN l : l[i] = l[j] => i = j}

VARIABLES
    dbMap,     \* DBMS.dbMap: database id -> *Database
    metaFile,  \* <RootDir>/db.meta: whether it exists and the ids it lists
    dataDir,   \* the ids whose data directory <RootDir>/<id> exists
    inst,      \* *Database -> "live", "shutdown" (Shutdown returned nil), "failed"
               \* (Shutdown returned an error) or "destroyed"
    fresh,     \* no DBMS method was called since NewDBMS
    runOk,     \* since NewDBMS every call returned nil and no two calls
               \* running at the same time named the same database id
    wk         \* per goroutine: its position in the DBMS method and its locals

dbmsVars == <<dbMap, metaFile, dataDir, inst, fresh, runOk, wk>>

\* pc: position; call: the method the goroutine called ("Init", "Create", "Drop");
\* op: the method running now (Create and Drop also run inside Init); id, cleanup:
\* the arguments; db: the local db; snap: the ids writeMeta collected; ctx: who
\* called writeMeta ("add": addMeta, "fail": Create's deferred removeMeta, "drop":
\* Drop's removeMeta); err: the named result err; ret: what the call returned;
\* localMeta, conf, toDrop: Init's meta, the instances not yet created and the
\* ids not yet dropped; authoritative: the ids of the list Init fetched;
\* envFail: some file, engine or RPC operation of the call failed; began, visit,
\* shut: the ids registered when Shutdown was called, those its dbMap.Range has
\* yet to visit, and those whose instance it called Shutdown on, in order
IdleWorker == [pc |-> "idle", call |-> "none", op |-> "none", id |-> 0,
               cleanup |-> FALSE, db |-> NoDB, snap |-> {}, ctx |-> "none",
               err |-> "nil", ret |-> "none", localMeta |-> {}, conf |-> <<>>,
               toDrop |-> {}, authoritative |-> {}, envFail |-> FALSE,
               began |-> {}, visit |-> {}, shut |-> <<>>]

\* NewDBMS on a worker that never ran: no meta file, no data
DBMSInit ==
    /\ dbMap = <<>>
    /\ metaFile = [exists |-> FALSE, dbs |-> {}]
    /\ dataDir = {}
    /\ inst = <<>>
    /\ fresh = TRUE
    /\ runOk = TRUE
    /\ wk = [t \in Goroutines |-> IdleWorker]

\* readMeta: the ids the meta file lists; no file is an empty meta
readMeta == IF metaFile.exists THEN metaFile.dbs ELSE {}

\* getMeta(dbID)
getMeta(dbID) == dbID \in DOMAIN dbMap

\* the ids writeMeta's dbMap.Range collects
writeMeta_KeepOld == (DOMAIN dbMap) \cup readMeta
writeMeta == DOMAIN dbMap

\* a *Database no goroutine and no map entry refers to
NewHandle == CHOOSE h \in Handles : h \notin DOMAIN inst
                                    /\ \A g \in Handles : g < h => g \in DOMAIN inst

\* goroutine t is not inside a DBMS method
Returned(t) == wk[t].pc \in {"idle", "ret"}
\* the *Database values still referred to when goroutine t has dropped its locals
Collected(t) ==
    [h \in {g \in DOMAIN inst :
              \/ g \in Range(dbMap)
              \/ \E u \in Goroutines \ {t} : wk[u].db = g} |-> inst[h]]

\* DBMS.Shutdown was called: the worker is stopping
Stopped == \E u \in Goroutines : wk[u].call = "Shutdown"

\* the method of goroutine record w returns result: inside Init a nil result goes
\* on with initDatabases' loops and an error ends Init
Finish(w, result) ==
    IF w.call = "Init" /\ result = "nil"
    THEN [w EXCEPT !.pc = "initNext", !.op = "none", !.db = NoDB, !.err = "nil",
                   !.snap = {}, !.ctx = "none"]
    ELSE [w EXCEPT !.pc = "ret", !.ret = result, !.snap = {}, !.ctx = "none"]

\* runOk after a step that leaves the goroutine as w2
OkAfter(w2) == runOk /\ ~(w2.pc = "ret" /\ w2.ret # "nil")
\* another goroutine is inside a call that names database id
Overlaps(t, id) ==
    \E u \in Goroutines \ {t} : ~Returned(u) /\ wk[u].id = id

\* Init up to initDatabases: readMeta and getMappedInstances (the RPC can fail)
InitCall(t) ==
    /\ Returned(t) /\ fresh /\ ~Stopped
    /\ \E conf \in InstanceLists, rpcOk \in BOOLEAN :
         LET w2 == IF rpcOk
                   THEN [IdleWorker EXCEPT !.pc = "initNext", !.call = "Init",
                                           !.localMeta = readMeta, !.conf = conf,
                                           !.authoritative = Range(conf),
                                           !.toDrop = readMeta \ Range(conf)]
                   ELSE [IdleWorker EXCEPT !.pc = "ret", !.call = "Init",
                                           !.localMeta = readMeta, !.envFail = TRUE,
                                           !.ret = "RPCError"]
         IN  wk' = [wk EXCEPT ![t] = w2] /\ runOk' = OkAfter(w2)
    /\ fresh' = FALSE
    /\ inst' = Collected(t)
    /\ UNCHANGED <<dbMap, metaFile, dataDir>>

\* initDatabases: the next Create(&instanceConf, false), after the last one the
\* next Drop(dbID) of toDropInstance (a Go map: any order), then return
initDatabases(t) ==
    /\ wk[t].pc = "initNext"
    /\ \/ /\ wk[t].conf # <<>>
          /\ wk' = [wk EXCEPT ![t].pc = "c_check", ![t].op = "Create",
                              ![t].id = Head(wk[t].conf), ![t].cleanup = FALSE,
                              ![t].conf = Tail(wk[t].conf)]
          /\ runOk' = runOk
       \/ /\ wk[t].conf = <<>>
          /\ \E dbID \in wk[t].toDrop :
               wk' = [wk EXCEPT ![t].pc = "d_check", ![t].op = "Drop",
                                ![t].id = dbID, ![t].toDrop = @ \ {dbID}]
          /\ runOk' = runOk
       \/ /\ wk[t].conf = <<>> /\ wk[t].toDrop = {}
          /\ wk' = [wk EXCEPT ![t].pc = "ret", ![t].ret = "nil"]
          /\ runOk' = runOk
    /\ UNCHANGED <<dbMap, metaFile, dataDir, inst, fresh>>

\* a goroutine calls Create(instance, cleanup)
CreateCall(t, dbID) ==
    /\ Returned(t) /\ ~Stopped
    /\ \E cleanup \in BOOLEAN :
         /\ wk' = [wk EXCEPT ![t] = [IdleWorker EXCEPT !.pc = "c_check",
                                        !.call = "Create", !.op = "Create",
                                        !.id = dbID, !.cleanup = cleanup]]
         /\ runOk' = (runOk /\ ~Overlaps(t, dbID))
    /\ fresh' = FALSE
    /\ inst' = Collected(t)
    /\ UNCHANGED <<dbMap, metaFile, dataDir>>

\* a goroutine calls Drop(dbID)
DropCall(t, dbID) ==
    /\ Returned(t) /\ ~Stopped
    /\ wk' = [wk EXCEPT ![t] = [IdleWorker EXCEPT !.pc = "d_check", !.call = "Drop",
                                                  !.op = "Drop", !.id = dbID]]
    /\ runOk' = (runOk /\ ~Overlaps(t, dbID))
    /\ fresh' = FALSE
    /\ inst' = Collected(t)
    /\ UNCHANGED <<dbMap, metaFile, dataDir>>

\* Create: the getMeta test
CreateCheck_CleanFirst(t) ==
    /\ wk[t].pc = "c_check"
    /\ LET w2 == IF getMeta(wk[t].id)
                 THEN Finish(wk[t], "ErrAlreadyExists")
                 ELSE [wk[t] EXCEPT !.pc = "c_new"]
       IN  wk' = [wk EXCEPT ![t] = w2] /\ runOk' = OkAfter(w2)
    /\ dataDir' = IF wk[t].cleanup THEN dataDir \ {wk[t].id} ELSE dataDir
    /\ UNCHANGED <<dbMap, metaFile, inst, fresh>>
CreateCheck(t) ==
    /\ wk[t].pc = "c_check"
    /\ LET w2 == IF getMeta(wk[t].id)
                 THEN Finish(wk[t], "ErrAlreadyExists")
                 ELSE [wk[t] EXCEPT !.pc = IF wk[t].cleanup THEN "c_clean" ELSE "c_new"]
       IN  wk' = [wk EXCEPT ![t] = w2] /\ runOk' = OkAfter(w2)
    /\ UNCHANGED <<dbMap, metaFile, dataDir, inst, fresh>>

\* Create: os.RemoveAll(rootDir); on an error Create returns it (nothing is
\* deferred yet)
RemoveAll(t, ioOk) ==
    /\ wk[t].pc = "c_clean"
    /\ \/ /\ ioOk
          /\ dataDir' = dataDir \ {wk[t].id}
          /\ wk' = [wk EXCEPT ![t].pc = "c_new"]
          /\ runOk' = runOk
       \/ /\ ~ioOk
          /\ dataDir' = dataDir
          /\ LET w2 == Finish([wk[t] EXCEPT !.envFail = TRUE], "IOError")
             IN  wk' = [wk EXCEPT ![t] = w2] /\ runOk' = OkAfter(w2)
    /\ UNCHANGED <<dbMap, metaFile, inst, fresh>>

\* Create: NewDatabase(dbCfg, peers, genesis) returns an instance over rootDir, or
\* an error and db = nil
NewDatabase(t, ioOk) ==
    /\ wk[t].pc = "c_new"
    /\ \/ /\ ioOk
          /\ inst' = [h \in (DOMAIN inst) \cup {NewHandle} |->
                         IF h = NewHandle THEN "live" ELSE inst[h]]
          /\ dataDir' = dataDir \cup {wk[t].id}
          /\ wk' = [wk EXCEPT ![t].pc = "c_add", ![t].db = NewHandle]
       \/ /\ ~ioOk
          /\ UNCHANGED <<inst, dataDir>>
          /\ wk' = [wk EXCEPT ![t].pc = "c_fail", ![t].err = "IOError",
                              ![t].envFail = TRUE]
    /\ UNCHANGED <<dbMap, metaFile, fresh, runOk>>

\* addMeta: dbMap.LoadOrStore(dbID, db)
addMeta(t) ==
    /\ wk[t].pc = "c_add"
    /\ IF wk[t].id \in DOMAIN dbMap
       THEN /\ wk' = [wk EXCEPT ![t].pc = "c_fail", ![t].err = "ErrAlreadyExists"]
            /\ dbMap' = dbMap
       ELSE /\ wk' = [wk EXCEPT ![t].pc = "snap", ![t].ctx = "add"]
            /\ dbMap' = [d \in (DOMAIN dbMap) \cup {wk[t].id} |->
                            IF d = wk[t].id THEN wk[t].db ELSE dbMap[d]]
    /\ UNCHANGED <<metaFile, dataDir, inst, fresh, runOk>>

CreateFailed_NoDelete(t) ==
    /\ wk[t].pc = "c_fail"
    /\ inst' = IF wk[t].db # NoDB THEN [inst EXCEPT ![wk[t].db] = "shutdown"] ELSE inst
    /\ dbMap' = dbMap
    /\ wk' = [wk EXCEPT ![t].pc = "snap", ![t].ctx = "fail"]
    /\ UNCHANGED <<metaFile, dataDir, fresh, runOk>>

\* Create's deferred function when err != nil: db.Shutdown() if there is a db,
\* then removeMeta's dbMap.Delete(dbID)
CreateFailed(t) ==
    /\ wk[t].pc = "c_fail"
    /\ inst' = IF wk[t].db # NoDB THEN [inst EXCEPT ![wk[t].db] = "shutdown"] ELSE inst
    /\ dbMap' = Without(dbMap, wk[t].id)
    /\ wk' = [wk EXCEPT ![t].pc = "snap", ![t].ctx = "fail"]
    /\ UNCHANGED <<metaFile, dataDir, fresh, runOk>>

\* writeMeta: dbMap.Range fills meta.DBS
MetaRange(t) ==
    /\ wk[t].pc = "snap"
    /\ wk' = [wk EXCEPT ![t].pc = "write", ![t].snap = writeMeta]
    /\ UNCHANGED <<dbMap, metaFile, dataDir, inst, fresh, runOk>>

\* writeMeta: ioutil.WriteFile replaces the meta file, or fails; addMeta and
\* Drop return that result, Create's deferred removeMeta drops it and Create
\* returns the error it had
MetaWrite(t, ioOk) ==
    /\ wk[t].pc = "write"
    /\   LET w == [wk[t] EXCEPT !.envFail = @ \/ ~ioOk]
             res == IF ioOk THEN "nil" ELSE "IOError"
             w2 == IF w.ctx = "fail" THEN Finish(w, w.err)
                   ELSE IF w.ctx = "add" /\ ~ioOk
                        THEN [w EXCEPT !.pc = "c_fail", !.err = res]
                        ELSE Finish(w, res)
         IN  /\ metaFile' = IF ioOk THEN [exists |-> TRUE, dbs |-> wk[t].snap]
                            ELSE metaFile
             /\ wk' = [wk EXCEPT ![t] = w2]
             /\ runOk' = OkAfter(w2)
    /\ UNCHANGED <<dbMap, dataDir, inst, fresh>>

\* Drop: the getMeta test
DropCheck(t) ==
    /\ wk[t].pc = "d_check"
    /\ LET w2 == IF getMeta(wk[t].id)
                 THEN [wk[t] EXCEPT !.pc = "d_destroy", !.db = dbMap[wk[t].id]]
                 ELSE Finish(wk[t], "ErrNotExists")
       IN  wk' = [wk EXCEPT ![t] = w2] /\ runOk' = OkAfter(w2)
    /\ UNCHANGED <<dbMap, metaFile, dataDir, inst, fresh>>

Destroy_IgnoreError(t, ioOk) ==
    /\ wk[t].pc = "d_destroy"
    /\ inst' = IF ioOk THEN [inst EXCEPT ![wk[t].db] = "destroyed"] ELSE inst
    /\ dataDir' = IF ioOk THEN dataDir \ {wk[t].id} ELSE dataDir
    /\ wk' = [wk EXCEPT ![t].pc = "d_remove", ![t].envFail = @ \/ ~ioOk]
    /\ runOk' = runOk
    /\ UNCHANGED <<dbMap, metaFile, fresh>>

\* Drop: db.Destroy() stops the instance and removes its data, or fails
Destroy(t, ioOk) ==
    /\ wk[t].pc = "d_destroy"
    /\ \/ /\ ioOk
          /\ inst' = [inst EXCEPT ![wk[t].db] = "destroyed"]
          /\ dataDir' = dataDir \ {wk[t].id}
          /\ wk' = [wk EXCEPT ![t].pc = "d_remove"]
          /\ runOk' = runOk
       \/ /\ ~ioOk
          /\ UNCHANGED <<inst, dataDir>>
          /\ LET w2 == Finish([wk[t] EXCEPT !.envFail = TRUE], "IOError")
             IN  wk' = [wk EXCEPT ![t] = w2] /\ runOk' = OkAfter(w2)
    /\ UNCHANGED <<dbMap, metaFile, fresh>>

\* removeMeta called by Drop: dbMap.Delete(dbID)
removeMeta(t) ==
    /\ wk[t].pc = "d_remove"
    /\ dbMap' = Without(dbMap, wk[t].id)
    /\ wk' = [wk EXCEPT ![t].pc = "snap", ![t].ctx = "drop"]
    /\ UNCHANGED <<metaFile, dataDir, inst, fresh, runOk>>

\* the stopping worker calls Shutdown (an empty dbMap.Range goes straight on to
\* writeMeta)
ShutdownCall(t) ==
    /\ Returned(t) /\ ~Stopped
    /\ wk' = [wk EXCEPT ![t] =
                 [IdleWorker EXCEPT !.pc = IF DOMAIN dbMap = {} THEN "snap" ELSE "s_range",
                                    !.call = "Shutdown", !.op = "Shutdown",
                                    !.ctx = "shutdown", !.began = DOMAIN dbMap,
                                    !.visit = DOMAIN dbMap]]
    /\ fresh' = FALSE
    /\ inst' = Collected(t)
    /\ UNCHANGED <<dbMap, metaFile, dataDir, runOk>>

\* Shutdown: dbMap.Range's function for one entry: db.Shutdown(), whose result
\* is dropped; after the last entry writeMeta follows
ShutdownInstance_StopOnError(t, ioOk) ==
    /\ wk[t].pc = "s_range"
    /\ \E dbID \in wk[t].visit :
         /\ inst' = [inst EXCEPT ![dbMap[dbID]] = IF ioOk THEN "shutdown" ELSE "failed"]
         /\ wk' = [wk EXCEPT ![t].visit = @ \ {dbID},
                             ![t].shut = Append(@, dbID),
                             ![t].pc = IF wk[t].visit = {dbID} \/ ~ioOk
                                       THEN "snap" ELSE "s_range"]
    /\ UNCHANGED <<dbMap, metaFile, dataDir, fresh, runOk>>
ShutdownInstance(t, ioOk) ==
    /\ wk[t].pc = "s_range"
    /\ \E dbID \in wk[t].visit :
         /\ inst' = [inst EXCEPT ![dbMap[dbID]] = IF ioOk THEN "shutdown" ELSE "failed"]
         /\ wk' = [wk EXCEPT ![t].visit = @ \ {dbID},
                             ![t].shut = Append(@, dbID),
                             ![t].pc = IF wk[t].visit = {dbID}
                                       THEN "snap" ELSE "s_range"]
    /\ UNCHANGED <<dbMap, metaFile, dataDir, fresh, runOk>>

\* the worker process ends and is started again: NewDBMS over the same RootDir
Restart ==
    /\ \A t \in Goroutines : Returned(t)
    /\ ~fresh
    /\ dbMap' = <<>> /\ inst' = <<>> /\ fresh' = TRUE /\ runOk' = TRUE
    /\ wk' = [t \in Goroutines |-> IdleWorker]
    /\ UNCHANGED <<metaFile, dataDir>>

vars == <<mu, s_tx, s_id, s_queries, sqlTx, committed, prepared, th, serviceMap, cd,
          dbMap, metaFile, dataDir, inst, fresh, runOk, wk,
          index_db, sqlDB, storages, nw>>

Init == StorageInit /\ CacheInit /\ SvcInit /\ DBMSInit

\* one Storage and the goroutines calling it
Next ==
    \/ \E t \in Threads : BadBatch(t) /\ UNCHANGED <<svcVars, dbmsVars, cacheVars>>
    \/ \E t \in Threads : Lock(t) /\ UNCHANGED <<svcVars, dbmsVars, cacheVars>>
    \/ \E t \in Threads : PrepareCheck(t) /\ UNCHANGED <<svcVars, dbmsVars, cacheVars>>
    \/ \E t \in Threads : PrepareBegin(t) /\ UNCHANGED <<svcVars, dbmsVars, cacheVars>>
    \/ \E t \in Threads : CommitCheck(t) /\ UNCHANGED <<svcVars, dbmsVars, cacheVars>>
    \/ \E t \in Threads : CommitExec(t) /\ UNCHANGED <<svcVars, dbmsVars, cacheVars>>
    \/ \E t \in Threads : CommitFinish(t) /\ UNCHANGED <<svcVars, dbmsVars, cacheVars>>
    \/ \E t \in Threads : RollbackBody(t) /\ UNCHANGED <<svcVars, dbmsVars, cacheVars>>
    \/ \E t \in Threads : Unlock(t) /\ UNCHANGED <<svcVars, dbmsVars, cacheVars>>
    \/ CtxCancel /\ UNCHANGED <<svcVars, dbmsVars, cacheVars>>

Spec == Init /\ [][Next]_vars

\* the process's goroutines opening storages and closing them
NextCache ==
    \/ \E t \in Openers, d \in DSNs : New(t, d)
          /\ UNCHANGED <<storageVars, svcVars, dbmsVars>>
    \/ \E t \in Openers : openDB(t) /\ UNCHANGED <<storageVars, svcVars, dbmsVars>>
    \/ \E s \in StorageIDs : Close(s) /\ UNCHANGED <<storageVars, svcVars, dbmsVars>>

SpecCache == Init /\ [][NextCache]_vars

\* the block producer serving CreateDatabase and DropDatabase requests
SvcCallers == {1}
NextSvc ==
    \/ \E c \in SvcCallers, n \in 0..MaxN : GenerateDatabaseID(c, n)
          /\ UNCHANGED <<storageVars, dbmsVars, cacheVars>>
    \/ \E c \in SvcCallers, metric \in [Nodes -> MetricValues], memory \in MemoryFloors,
          leaderIdx \in 1..MaxN : AllocateNodes(c, metric, memory, leaderIdx)
          /\ UNCHANGED <<storageVars, dbmsVars, cacheVars>>
    \/ \E c \in SvcCallers : DropDatabaseCall(c) /\ UNCHANGED <<storageVars, dbmsVars, cacheVars>>
    \/ \E c \in SvcCallers : CallNode(c) /\ UNCHANGED <<storageVars, dbmsVars, cacheVars>>
    \/ \E c \in SvcCallers : ForwardDone(c) /\ UNCHANGED <<storageVars, dbmsVars, cacheVars>>
    \/ \E c \in SvcCallers : RollbackDone(c) /\ UNCHANGED <<storageVars, dbmsVars, cacheVars>>
    \/ \E c \in SvcCallers : MapSet(c) /\ UNCHANGED <<storageVars, dbmsVars, cacheVars>>
    \/ \E c \in SvcCallers : MapDelete(c) /\ UNCHANGED <<storageVars, dbmsVars, cacheVars>>
    \/ \E c \in SvcCallers : Respond(c) /\ UNCHANGED <<storageVars, dbmsVars, cacheVars>>

SpecSvc == Init /\ [][NextSvc]_vars

\* two BPDB requests served at the same time, for single-replica databases on
\* nodes that all report enough free memory
ConcReplicas == {1}
HealthyMetrics == {[x \in Nodes |-> [collected |-> TRUE, value |-> 2]]}
NextSvcConc ==
    \/ \E c \in Calls, n \in ConcReplicas : GenerateDatabaseID(c, n)
          /\ UNCHANGED <<storageVars, dbmsVars, cacheVars>>
    \/ \E c \in Calls, metric \in HealthyMetrics, memory \in MemoryFloors :
          AllocateNodes(c, metric, memory, 1) /\ UNCHANGED <<storageVars, dbmsVars, cacheVars>>
    \/ \E c \in Calls : DropDatabaseCall(c) /\ UNCHANGED <<storageVars, dbmsVars, cacheVars>>
    \/ \E c \in Calls : CallNode(c) /\ UNCHANGED <<storageVars, dbmsVars, cacheVars>>
    \/ \E c \in Calls : ForwardDone(c) /\ UNCHANGED <<storageVars, dbmsVars, cacheVars>>
    \/ \E c \in Calls : RollbackDone(c) /\ UNCHANGED <<storageVars, dbmsVars, cacheVars>>
    \/ \E c \in Calls : MapSet(c) /\ UNCHANGED <<storageVars, dbmsVars, cacheVars>>
    \/ \E c \in Calls : MapDelete(c) /\ UNCHANGED <<storageVars, dbmsVars, cacheVars>>
    \/ \E c \in Calls : Respond(c) /\ UNCHANGED <<storageVars, dbmsVars, cacheVars>>

SpecSvcConc == Init /\ [][NextSvcConc]_vars

\* one worker: it starts, runs Init, serves Create and Drop one call at a time,
\* and may be stopped and started again
SeqCallers == {1}
NextDBMS ==
    \/ \E t \in SeqCallers : InitCall(t) /\ UNCHANGED <<storageVars, svcVars, cacheVars>>
    \/ \E t \in SeqCallers : initDatabases(t) /\ UNCHANGED <<storageVars, svcVars, cacheVars>>
    \/ \E t \in SeqCallers, dbID \in WorkerDBIDs : CreateCall(t, dbID)
          /\ UNCHANGED <<storageVars, svcVars, cacheVars>>
    \/ \E t \in SeqCallers, dbID \in WorkerDBIDs : DropCall(t, dbID)
          /\ UNCHANGED <<storageVars, svcVars, cacheVars>>
    \/ \E t \in SeqCallers : CreateCheck(t) /\ UNCHANGED <<storageVars, svcVars, cacheVars>>
    \/ \E t \in SeqCallers, ioOk \in BOOLEAN : RemoveAll(t, ioOk)
          /\ UNCHANGED <<storageVars, svcVars, cacheVars>>
    \/ \E t \in SeqCallers, ioOk \in BOOLEAN : NewDatabase(t, ioOk)
          /\ UNCHANGED <<storageVars, svcVars, cacheVars>>
    \/ \E t \in SeqCallers : addMeta(t) /\ UNCHANGED <<storageVars, svcVars, cacheVars>>
    \/ \E t \in SeqCallers : CreateFailed(t) /\ UNCHANGED <<storageVars, svcVars, cacheVars>>
    \/ \E t \in SeqCallers : MetaRange(t) /\ UNCHANGED <<storageVars, svcVars, cacheVars>>
    \/ \E t \in SeqCallers, ioOk \in BOOLEAN : MetaWrite(t, ioOk)
          /\ UNCHANGED <<storageVars, svcVars, cacheVars>>
    \/ \E t \in SeqCallers : DropCheck(t) /\ UNCHANGED <<storageVars, svcVars, cacheVars>>
    \/ \E t \in SeqCallers, ioOk \in BOOLEAN : Destroy(t, ioOk)
          /\ UNCHANGED <<storageVars, svcVars, cacheVars>>
    \/ \E t \in SeqCallers : removeMeta(t) /\ UNCHANGED <<storageVars, svcVars, cacheVars>>
    \/ \E t \in SeqCallers : ShutdownCall(t) /\ UNCHANGED <<storageVars, svcVars, cacheVars>>
    \/ \E t \in SeqCallers, ioOk \in BOOLEAN : ShutdownInstance(t, ioOk)
          /\ UNCHANGED <<storageVars, svcVars, cacheVars>>
    \/ Restart /\ UNCHANGED <<storageVars, svcVars, cacheVars>>

SpecDBMS == Init /\ [][NextDBMS]_vars

\* the worker's RPC handlers calling Create and Drop at the same time, while the
\* file system and the engine work
ConcDBIDs == {1, 2}
NextDBMSConc ==
    \/ \E t \in Goroutines, dbID \in ConcDBIDs : CreateCall(t, dbID)
          /\ UNCHANGED <<storageVars, svcVars, cacheVars>>
    \/ \E t \in Goroutines, dbID \in ConcDBIDs : DropCall(t, dbID)
          /\ UNCHANGED <<storageVars, svcVars, cacheVars>>
    \/ \E t \in Goroutines : CreateCheck(t) /\ UNCHANGED <<storageVars, svcVars, cacheVars>>
    \/ \E t \in Goroutines : RemoveAll(t, TRUE) /\ UNCHANGED <<storageVars, svcVars, cacheVars>>
    \/ \E t \in Goroutines : NewDatabase(t, TRUE) /\ UNCHANGED <<storageVars, svcVars, cacheVars>>
    \/ \E t \in Goroutines : addMeta(t) /\ UNCHANGED <<storageVars, svcVars, cacheVars>>
    \/ \E t \in Goroutines : CreateFailed(t) /\ UNCHANGED <<storageVars, svcVars, cacheVars>>
    \/ \E t \in Goroutines : MetaRange(t) /\ UNCHANGED <<storageVars, svcVars, cacheVars>>
    \/ \E t \in Goroutines : MetaWrite(t, TRUE) /\ UNCHANGED <<storageVars, svcVars, cacheVars>>
    \/ \E t \in Goroutines : DropCheck(t) /\ UNCHANGED <<storageVars, svcVars, cacheVars>>
    \/ \E t \in Goroutines : Destroy(t, TRUE) /\ UNCHANGED <<storageVars, svcVars, cacheVars>>
    \/ \E t \in Goroutines : removeMeta(t) /\ UNCHANGED <<storageVars, svcVars, cacheVars>>

SpecDBMSConc == Init /\ [][NextDBMSConc]_vars

\* two RPC handlers of a freshly started worker, each calling Create once, while
\* the file system and the engine work
CreateOnce(t, dbID) == wk[t].pc = "idle" /\ CreateCall(t, dbID)
NextCreateRace ==
    \/ \E t \in Goroutines, dbID \in ConcDBIDs : CreateOnce(t, dbID)
          /\ UNCHANGED <<storageVars, svcVars, cacheVars>>
    \/ \E t \in Goroutines : CreateCheck(t) /\ UNCHANGED <<storageVars, svcVars, cacheVars>>
    \/ \E t \in Goroutines : RemoveAll(t, TRUE) /\ UNCHANGED <<storageVars, svcVars, cacheVars>>
    \/ \E t \in Goroutines : NewDatabase(t, TRUE) /\ UNCHANGED <<storageVars, svcVars, cacheVars>>
    \/ \E t \in Goroutines : addMeta(t) /\ UNCHANGED <<storageVars, svcVars, cacheVars>>
    \/ \E t \in Goroutines : CreateFailed(t) /\ UNCHANGED <<storageVars, svcVars, cacheVars>>
    \/ \E t \in Goroutines : MetaRange(t) /\ UNCHANGED <<storageVars, svcVars, cacheVars>>
    \/ \E t \in Goroutines : MetaWrite(t, TRUE) /\ UNCHANGED <<storageVars, svcVars, cacheVars>>

SpecCreateRace == Init /\ [][NextCreateRace]_vars

\* ------------------------------------------------- Storage: the claims

\* goroutine t takes this step
Took(t) == th'[t] # th[t]
\* the participant's own fields and the engine are left as they were
StorageUntouched ==
    /\ s_tx' = s_tx /\ s_id' = s_id /\ s_queries' = s_queries
    /\ sqlTx' = sqlTx /\ committed' = committed
IsPrefix(a, b) == Len(a) <= Len(b) /\ a = SubSeq(b, 1, Len(a))

\* C1: a Prepare carrying t2 while a transaction with t1 # t2 is active returns
\* InconsistentState and leaves the transaction handle, the recorded TxID and the
\* buffered query list (and the engine's transaction) exactly as they were.
C1_PrepareOtherTxRejected ==
    [][\A t \in Threads :
         (/\ th[t].pc = "check" /\ th[t].op = "Prepare" /\ Took(t)
          /\ s_tx # NoTx /\ th[t].id # s_id)
         => /\ th'[t].pc = "ret" /\ th'[t].ret = "InconsistentState"
            /\ StorageUntouched]_vars
C1_Witness ==
    \E t \in Threads :
        /\ th[t].pc = "ret" /\ th[t].op = "Prepare" /\ th[t].ret = "InconsistentState"
        /\ TxOpen(s_tx) /\ s_id # th[t].id /\ s_queries # th[t].queries
        /\ s_queries # <<>>

\* C2: Prepare(T, L2) while T is active returns nil, opens no new SQL transaction
\* and leaves the buffer equal to L2; a Commit(T) that returns nil has executed
\* exactly the statements of the last prepared list, in order.
C2_IdempotentStep ==
    \A t \in Threads :
        (/\ th[t].pc = "check" /\ th[t].op = "Prepare" /\ Took(t)
         /\ s_tx # NoTx /\ th[t].id = s_id)
        => /\ th'[t].pc = "ret" /\ th'[t].ret = "ok"
           /\ s_tx' = s_tx /\ s_id' = s_id /\ sqlTx' = sqlTx /\ committed' = committed
           /\ s_queries' = th[t].queries
C2_CommitReplaysLast ==
    \A t \in Threads :
        /\ (th[t].op = "Commit" /\ th[t].pc = "exec") => IsPrefix(th[t].trace, prepared)
        /\ (th[t].op = "Commit" /\ th[t].pc = "ret" /\ th[t].ret = "ok")
               => th[t].trace = prepared
C2_IdempotentPrepare == [][C2_IdempotentStep]_vars /\ []C2_CommitReplaysLast
\* an idempotent Prepare has replaced a different, non-empty list
C2_Witness ==
    \E t \in Threads :
        /\ th[t].pc = "ret" /\ th[t].op = "Prepare" /\ th[t].ret = "ok" /\ th[t].sawTx
        /\ s_queries = th[t].queries /\ Len(s_queries) = 2
        /\ TxOpen(s_tx)

\* C3: at most one SQL transaction opened by Prepare is open at any instant, and
\* the bodies of Prepare/Commit/Rollback never overlap.
C3_OneTxOneBody ==
    /\ Cardinality(DOMAIN sqlTx) <= 1
    /\ Cardinality({t \in Threads : th[t].held}) <= 1
C3_Witness ==
    \E t \in Threads, u \in Threads :
        /\ t # u /\ mu = t /\ th[t].held /\ th[t].op = "Prepare" /\ th[t].ret = "ok"
        /\ th[u].pc = "idle"
        /\ Cardinality(DOMAIN sqlTx) = 1

\* C4: when the k-th buffered statement of Commit(T) fails, statements 1..k-1 were
\* executed and are rolled back, the later ones are never executed, Commit returns
\* the error, the participant is Idle with an empty buffer, and a following
\* Prepare with any TxID is accepted (it succeeds as soon as BeginTx does).
C4_FailedCommitState ==
    \A t \in Threads :
        (th[t].op = "Commit" /\ th[t].pc = "ret" /\ th[t].ret = "SQLError")
        => /\ s_tx = NoTx /\ s_queries = <<>> /\ sqlTx = <<>>
           /\ IsPrefix(th[t].trace, prepared) /\ Len(th[t].trace) < Len(prepared)
C4_Steps ==
    /\ committed' # committed
          => \E t \in Threads : th[t].pc = "exec" /\ th'[t].ret = "ok"
    /\ \A t \in Threads :
          /\ (th[t].pc = "check" /\ th[t].op = "Prepare" /\ Took(t) /\ s_tx = NoTx)
                => th'[t].pc = "begin"
          /\ (th[t].pc = "begin" /\ Took(t))
                => (th'[t].ret = "ok" <=> (s_tx' # NoTx /\ s_id' = th[t].id
                                           /\ s_queries' = th[t].queries))
C4_MidCommitFailure == []C4_FailedCommitState /\ [][C4_Steps]_vars
\* [Q1, BadSQL, Q2]: Q1 ran, BadSQL failed, Q2 never ran
C4_Witness ==
    \E t \in Threads :
        /\ th[t].op = "Commit" /\ th[t].pc = "ret" /\ th[t].ret = "SQLError"
        /\ Len(th[t].trace) = 1 /\ Len(prepared) = 3 /\ prepared[2] = "BadSQL"
        /\ s_tx = NoTx /\ committed = {}

\* C5: Commit on an Idle participant returns NotPrepared, Commit(T2) while T1 # T2
\* is active returns InconsistentState; in both cases no statement is executed and
\* the participant's state is unchanged.
C5_Step ==
    \A t \in Threads :
        (th[t].pc = "check" /\ th[t].op = "Commit" /\ Took(t))
        => /\ s_tx = NoTx => th'[t].ret = "NotPrepared"
           /\ (s_tx # NoTx /\ th[t].id # s_id) => th'[t].ret = "InconsistentState"
           /\ (s_tx = NoTx \/ th[t].id # s_id)
                 => th'[t].pc = "ret" /\ th'[t].trace = <<>> /\ StorageUntouched
C5_CommitNeedsMatchingTx == [][C5_Step]_vars
C5_Witness ==
    \E t \in Threads :
        /\ th[t].pc = "ret" /\ th[t].op = "Commit" /\ th[t].ret = "InconsistentState"
        /\ TxOpen(s_tx) /\ s_id # th[t].id /\ Len(s_queries) > 0 /\ th[t].trace = <<>>

\* C6: Rollback(T) with T the participant's TxID returns nil and leaves the
\* participant Idle with an empty buffer and nothing applied, also when no
\* transaction handle exists (after a Rollback or Commit of T); Rollback(T2) with
\* another TxID returns InconsistentState and changes nothing.
C6_Step ==
    \A t \in Threads :
        /\ (th[t].pc = "check" /\ th[t].op = "Rollback" /\ Took(t))
           => IF th[t].id = s_id
              THEN /\ th'[t].pc = "ret" /\ th'[t].ret = "ok"
                   /\ s_tx' = NoTx /\ s_queries' = <<>> /\ s_tx \notin DOMAIN sqlTx'
                   /\ s_id' = s_id /\ committed' = committed
              ELSE /\ th'[t].pc = "ret" /\ th'[t].ret = "InconsistentState"
                   /\ StorageUntouched
        \* a Commit or Rollback of T that ended the transaction leaves T recorded
        /\ (th[t].op \in {"Commit", "Rollback"} /\ th[t].pc \in {"check", "exec"}
            /\ Took(t) /\ th'[t].ret \in {"ok", "SQLError"})
           => s_id' = th[t].id /\ s_tx' = NoTx
C6_Rollback == [][C6_Step]_vars
\* a redundant Rollback(T): no handle was there, T # the zero TxID
C6_Witness ==
    \E t \in Threads :
        /\ th[t].pc = "ret" /\ th[t].op = "Rollback" /\ th[t].ret = "ok"
        /\ ~th[t].sawTx /\ th[t].id # ZeroTxID /\ s_tx = NoTx /\ s_queries = <<>>

\* C7 as stated: after a Commit or Rollback of T has returned, the participant no
\* longer records T as its TxID.
C7_Original ==
    \A t \in Threads :
        (/\ th[t].pc = "ret" /\ th[t].op \in {"Commit", "Rollback"}
         /\ th[t].ret = "ok" /\ th[t].id # ZeroTxID)
        => s_id # th[t].id
\* C7 amended: the transaction handle is set by a successful Prepare and cleared by
\* Commit and Rollback; the id field is written by a Prepare that opens a
\* transaction and by nothing else, so it still holds T after Commit or Rollback
\* of T has returned.
C7_HandleAndID ==
    \A t \in Threads :
        th[t].pc = "ret" =>
          /\ (th[t].op = "Prepare" /\ th[t].ret = "ok")
                => s_tx # NoTx /\ s_id = th[t].id
          /\ (th[t].op \in {"Commit", "Rollback"} /\ th[t].ret \in {"ok", "SQLError"})
                => s_tx = NoTx /\ s_id = th[t].id
C7_IDWrittenByPrepareOnly ==
    s_id' # s_id => \E t \in Threads :
                       th[t].pc = "begin" /\ th'[t].ret = "ok" /\ s_id' = th[t].id
C7_Amended == []C7_HandleAndID /\ [][C7_IDWrittenByPrepareOnly]_vars
C7_Witness ==
    \E t \in Threads :
        /\ th[t].pc = "ret" /\ th[t].op = "Commit" /\ th[t].ret = "ok"
        /\ th[t].id # ZeroTxID /\ s_tx = NoTx /\ s_id = th[t].id /\ committed # {}

\* C8: whenever the transaction slot is occupied the underlying SQL transaction is
\* still open (a failed BeginTx and a cancelled context both leave the participant
\* Idle).
C8_PreparedHasOpenTx == s_tx # NoTx => TxOpen(s_tx)

\* ------------------------------------------------- DBService: the claims

\* the forward batch of request c has returned
ForwardReturned(c) == cd[c].phase = 2 \/ cd[c].pc \in {"meta", "done"}
\* some node's forward RPC returned an error
SomeForwardError(c) == \E i \in 1..Len(cd[c].ch1) : cd[c].ch1[i] # "nil"

\* C9: if at least one of the N Update(CreateDB) RPCs of a CreateDatabase returns an
\* error, whichever node and in whatever order, then Update(DropDB) is dispatched
\* to every allocated node, nothing is written to the Service Map and
\* CreateDatabase returns an error.
C9_CreateRollsBackOnAnyError ==
    \A c \in Calls :
        (cd[c].pc = "done" /\ cd[c].op = "create" /\ SomeForwardError(c))
        => /\ cd[c].phase = 2 /\ Len(cd[c].ch2) = Len(cd[c].servers)
           /\ cd[c].db \notin DOMAIN serviceMap
           /\ cd[c].result = "err"

\* C10: batchSendSingleSvcReq returns a non-nil error if and only if at least one
\* node's RPC returned a non-nil error, for every completion order.
C10_BatchErrorIffAnyError ==
    \A c \in Calls :
        ForwardReturned(c) => (cd[c].err # "nil" <=> SomeForwardError(c))

\* request c is a CreateDatabase that returned an instance
CreateSucceeded(c) == cd[c].pc = "done" /\ cd[c].op = "create" /\ cd[c].result = "ok"

\* C11: for every successful CreateDatabase with requested replica count N, in
\* whichever round the allocation succeeded, the returned instance's peer set has
\* exactly N servers with pairwise distinct node ids, exactly one of them has
\* role Leader and it is the one Leader refers to, all others are Followers, and
\* term = 1.
C11_PeersWellFormed ==
    \A c \in Calls :
        CreateSucceeded(c) =>
          LET instance == serviceMap[cd[c].db] IN
            /\ Len(instance.servers) = cd[c].n /\ Len(instance.roles) = cd[c].n
            /\ \A i, j \in 1..Len(instance.servers) :
                   instance.servers[i] = instance.servers[j] => i = j
            /\ Cardinality({i \in 1..Len(instance.roles) : instance.roles[i] = "Leader"}) = 1
            /\ \A i \in 1..Len(instance.roles) :
                   /\ instance.roles[i] \in {"Leader", "Follower"}
                   /\ instance.roles[i] = "Leader" <=> instance.servers[i] = instance.leader
            /\ instance.term = 1
\* a two-replica instance was returned, led by its second server
C11_Witness ==
    \E c \in Calls :
        /\ CreateSucceeded(c) /\ cd[c].n = 2
        /\ Len(serviceMap[cd[c].db].servers) = 2
        /\ serviceMap[cd[c].db].roles = <<"Follower", "Leader">>

\* allocateNodes of request c went through at least one round
Allocating(c) == cd[c].op = "create" /\ cd[c].hist # <<>>
\* the last round allocateNodes of request c went through
LastRound(c) == cd[c].hist[Len(cd[c].hist)]

\* C12: every server of the peer set passed the free-memory check in the
\* succeeding round and is not in the exclusion set; when a round (the first or a
\* later, wider one) finds N healthy nodes, allocation succeeds with N of them.
C12_ServersPassedCheck ==
    \A c \in Calls :
        Allocating(c) =>
          LET r == LastRound(c) IN
            /\ Range(cd[c].servers) \subseteq r.allocated
            /\ Range(cd[c].servers) \cap r.excludeNodes = {}
            /\ (r.checked /\ Cardinality(r.allocated) >= cd[c].n)
                  => Len(cd[c].servers) = cd[c].n /\ cd[c].result # "panic"

\* CreateDatabase of request c returned ErrDatabaseAllocation
AllocationFailed(c) ==
    cd[c].pc = "done" /\ cd[c].op = "create" /\ cd[c].result = "AllocationFailed"
\* allocateNodes of request c has returned
AllocationReturned(c) == cd[c].op = "create" /\ cd[c].pc \in {"send", "meta", "done"}
\* some round of request c found N nodes that passed the check
SomeRoundYields(c) ==
    \E k \in 1..Len(cd[c].hist) :
        cd[c].hist[k].checked /\ Cardinality(cd[c].hist[k].allocated) >= cd[c].n
\* a failed allocation has sent no RPC and its id has no Service Map entry
NothingSent(c) ==
    /\ cd[c].phase = 0 /\ cd[c].ch1 = <<>> /\ cd[c].ch2 = <<>> /\ cd[c].pending = {}
    /\ cd[c].db \notin DOMAIN serviceMap
\* the allocation loop ends within AllocationRounds rounds, and a call with N <= 0
\* or with no yielding round returns AllocationFailed, nothing sent or stored
AllocationEnds(c) ==
    /\ Len(cd[c].hist) <= AllocationRounds
    /\ (cd[c].n <= 0 \/ ~SomeRoundYields(c)) => AllocationFailed(c)
    /\ AllocationFailed(c) => NothingSent(c)

\* C13 as stated: the loop ends within AllocationRounds rounds, round k asks the
\* ring for k * N neighbours (N in round 1, N more in each following round), and
\* when no round yields N surviving nodes or N <= 0 CreateDatabase returns
\* AllocationFailed with no Update RPC sent and the Service Map unchanged.
C13_Original ==
    \A c \in Calls :
        AllocationReturned(c) =>
          /\ AllocationEnds(c)
          /\ \A k \in 1..Len(cd[c].hist) : cd[c].hist[k].curRange = k * cd[c].n
\* C13 amended: the loop ends within AllocationRounds rounds; round 1 asks the
\* ring for N neighbours, a round that follows a round whose metrics were checked
\* asks for N more, and a round that follows a round skipped for having fewer than
\* N non-excluded neighbours asks for the same number again; when no round yields
\* N surviving nodes or N <= 0 CreateDatabase returns AllocationFailed with no
\* Update RPC sent and the Service Map unchanged.
C13_Ranges ==
    \A c \in Calls :
        AllocationReturned(c) =>
          /\ AllocationEnds(c)
          /\ \A k \in 1..Len(cd[c].hist) :
                cd[c].hist[k].curRange =
                    IF k = 1 THEN cd[c].n
                    ELSE IF cd[c].hist[k - 1].checked
                         THEN cd[c].hist[k - 1].curRange + cd[c].n
                         ELSE cd[c].hist[k - 1].curRange
C13_FailureChangesNothing ==
    \A c \in Calls :
        (cd[c].pc = "alloc" /\ AllocationFailed(c)') => serviceMap' = serviceMap
C13_Amended == []C13_Ranges /\ [][C13_FailureChangesNothing]_vars
\* all rounds were used, round 2 was skipped and round 3 asked for no more
C13_Witness ==
    \E c \in Calls :
        /\ AllocationFailed(c) /\ Len(cd[c].hist) = AllocationRounds
        /\ ~cd[c].hist[2].checked
        /\ cd[c].hist[3].curRange = cd[c].hist[2].curRange
        /\ cd[c].hist[3].curRange < 3 * cd[c].n

\* C14: a node whose metrics were checked is rejected and put into the exclusion
\* set exactly when its reported free memory is below the request's memory floor
\* (free memory equal to the floor is accepted), and a node once excluded is not
\* a candidate in any later round of the same call.
C14_RejectedIffBelowFloor ==
    \A c \in Calls :
        Allocating(c) =>
          \A k \in 1..Len(cd[c].hist) :
            LET r == cd[c].hist[k] IN
              /\ r.checked =>
                    \A x \in Range(r.nodeIDs) :
                        cd[c].metric[x].collected =>
                          /\ x \in r.excludeNodes <=> cd[c].metric[x].value < cd[c].memory
                          /\ x \in r.allocated <=> x \notin r.excludeNodes
              /\ \A j \in (k + 1)..Len(cd[c].hist) :
                    r.excludeNodes \cap Range(cd[c].hist[j].nodeIDs) = {}

\* C15: DropDatabase deletes the Service Map entry only after every peer's
\* Update(DropDB) has returned success: if any peer's RPC failed, in any
\* completion order, it returns an error and the entry is still in the map; for
\* an id that is not in the map it returns the lookup error and sends no RPC.
C15_DropOnlyAfterAllAcks ==
    \A c \in Calls :
        (cd[c].pc = "done" /\ cd[c].op = "drop") =>
          IF cd[c].result = "NoSuchDatabase"
          THEN cd[c].phase = 0 /\ cd[c].ch1 = <<>> /\ cd[c].ch2 = <<>>
          ELSE /\ SomeForwardError(c)
                    => cd[c].result = "err" /\ cd[c].db \in DOMAIN serviceMap
               /\ cd[c].db \notin DOMAIN serviceMap
                    => /\ Len(cd[c].ch1) = Len(cd[c].servers)
                       /\ \A i \in 1..Len(cd[c].ch1) : cd[c].ch1[i] = "nil"

\* ------------------------------------------------- DBMS: the claims

\* Init of goroutine t has returned
InitReturned(t) == wk[t].call = "Init" /\ wk[t].pc = "ret"

\* C16: for every content of the meta file and every authoritative instance list
\* the coordinator returns, after Init has returned (no file, engine or RPC
\* operation having failed) the ids in the registry are those of the
\* authoritative list and the ids stored in the meta file are those in the
\* registry.
C16_InitReconciles ==
    \A t \in Goroutines :
        (InitReturned(t) /\ ~wk[t].envFail)
        => /\ DOMAIN dbMap = wk[t].authoritative
           /\ readMeta = DOMAIN dbMap

\* C17: when the meta file lists an id the authoritative list does not contain,
\* Init completes successfully: every authoritative instance is created and live,
\* every meta-only id is dropped and its local data destroyed, and the meta file
\* afterwards lists the authoritative set.
C17_MetaOnlyDropped ==
    \A t \in Goroutines :
        (/\ InitReturned(t) /\ ~wk[t].envFail
         /\ wk[t].localMeta \ wk[t].authoritative # {})
        => /\ wk[t].ret = "nil"
           /\ DOMAIN dbMap = wk[t].authoritative
           /\ \A d \in DOMAIN dbMap : inst[dbMap[d]] = "live"
           /\ (wk[t].localMeta \ wk[t].authoritative) \cap dataDir = {}
           /\ readMeta = wk[t].authoritative

\* C18: when Create and Drop are called one after the other, immediately after
\* each call that returns nil the ids stored in the meta file are the ids in the
\* registry.
C18_MetaEqualsRegistry ==
    \A t \in Goroutines :
        (wk[t].pc = "ret" /\ wk[t].call \in {"Create", "Drop"} /\ wk[t].ret = "nil")
        => metaFile.exists /\ metaFile.dbs = DOMAIN dbMap
\* a Drop has returned nil and left another database registered
C18_Witness ==
    \E t \in Goroutines :
        /\ wk[t].pc = "ret" /\ wk[t].call = "Drop" /\ wk[t].ret = "nil"
        /\ DOMAIN dbMap # {} /\ wk[t].id \notin DOMAIN dbMap
        /\ metaFile.dbs = DOMAIN dbMap

\* C19: meta rewrites are serialized with the registry's mutation: for every
\* interleaving of concurrent Create and Drop calls on distinct database ids,
\* once all calls have returned nil the ids stored in the meta file are the ids
\* in the registry.
C19_MetaWritesSerialized ==
    (runOk /\ \A t \in Goroutines : Returned(t)) => readMeta = DOMAIN dbMap

\* C20: Create for an id that is already registered returns AlreadyExists and
\* changes nothing: the registry, the meta file, the registered instance (still
\* live, the same one) and its data directory are as before the call, also when
\* cleanup is requested.
C20_Step ==
    \A t \in Goroutines :
        (/\ wk[t].pc = "c_check" /\ wk'[t] # wk[t]
         /\ wk[t].id \in DOMAIN dbMap)
        => /\ wk'[t].pc = "ret" /\ wk'[t].ret = "ErrAlreadyExists"
           /\ dbMap' = dbMap /\ metaFile' = metaFile
           /\ inst' = inst /\ dataDir' = dataDir
C20_Registered ==
    \A t \in Goroutines :
        (wk[t].pc = "ret" /\ wk[t].op = "Create" /\ wk[t].ret = "ErrAlreadyExists")
        => /\ wk[t].id \in DOMAIN dbMap
           /\ inst[dbMap[wk[t].id]] = "live"
           /\ wk[t].id \in dataDir
C20_AlreadyExistsChangesNothing == [][C20_Step]_vars /\ []C20_Registered
\* Create(id, cleanup = true) of a registered id has returned AlreadyExists
C20_Witness ==
    \E t \in Goroutines :
        /\ wk[t].pc = "ret" /\ wk[t].call = "Create" /\ wk[t].cleanup
        /\ wk[t].ret = "ErrAlreadyExists"
        /\ wk[t].id \in DOMAIN dbMap /\ inst[dbMap[wk[t].id]] = "live"
        /\ wk[t].id \in dataDir /\ wk[t].id \in readMeta

\* goroutine t takes this step
Stepped(t) == wk'[t] # wk[t]

\* C21: if Create fails after it started constructing the instance (NewDatabase
\* fails, or the meta file write fails after the id was inserted), then on return
\* the id is not in the registry, a constructed instance has been shut down and
\* the error is returned; the other databases stay registered as they were.
C21_FailedCreate ==
    \A t \in Goroutines :
        (wk[t].pc = "ret" /\ wk[t].op = "Create" /\ wk[t].err # "nil")
        => /\ wk[t].id \notin DOMAIN dbMap
           /\ wk[t].db # NoDB => inst[wk[t].db] = "shutdown"
           /\ wk[t].ret = wk[t].err
C21_OthersStay ==
    \A t \in Goroutines :
        (wk[t].op = "Create" /\ ~Returned(t) /\ Stepped(t))
        => \A d \in (DOMAIN dbMap) \ {wk[t].id} :
              d \in DOMAIN dbMap' /\ dbMap'[d] = dbMap[d]
C22_Step ==
    \A t \in Goroutines :
        /\ (wk[t].pc = "d_check" /\ Stepped(t) /\ wk[t].id \notin DOMAIN dbMap)
           => /\ wk'[t].pc = "ret" /\ wk'[t].ret = "ErrNotExists"
              /\ dbMap' = dbMap /\ metaFile' = metaFile /\ inst' = inst
        /\ (wk[t].pc = "d_destroy" /\ Stepped(t))
           => /\ dbMap' = dbMap /\ metaFile' = metaFile
              /\ \/ inst'[wk[t].db] = "destroyed" /\ wk'[t].pc = "d_remove"
                 \/ /\ wk'[t].pc = "ret" /\ wk'[t].ret = "IOError"
                    /\ inst' = inst /\ dataDir' = dataDir
                    /\ wk[t].id \in DOMAIN dbMap /\ wk[t].id \in readMeta
        /\ (wk[t].pc = "d_remove" /\ Stepped(t))
           => /\ inst[wk[t].db] = "destroyed"
              /\ wk[t].id \notin DOMAIN dbMap' /\ metaFile' = metaFile
        /\ (wk[t].pc = "write" /\ wk[t].ctx = "drop" /\ Stepped(t)
            /\ metaFile' # metaFile)
           => metaFile'.dbs = DOMAIN dbMap /\ wk[t].id \notin metaFile'.dbs
C22_Dropped ==
    \A t \in Goroutines :
        (wk[t].pc = "ret" /\ wk[t].call = "Drop" /\ wk[t].ret = "nil")
        => /\ inst[wk[t].db] = "destroyed"
           /\ wk[t].id \notin DOMAIN dbMap /\ wk[t].id \notin readMeta
C22_Drop == [][C22_Step]_vars /\ []C22_Dropped
\* Destroy failed for a registered database: it is still registered and listed
C22_Witness ==
    \E t \in Goroutines :
        /\ wk[t].pc = "ret" /\ wk[t].call = "Drop" /\ wk[t].ret = "IOError"
        /\ wk[t].id \in DOMAIN dbMap /\ wk[t].id \in readMeta
        /\ inst[dbMap[wk[t].id]] = "live"

\* C23: Shutdown calls Shutdown on every registered instance exactly once
\* whatever the instances return, writes the meta file only after all instances
\* were attempted and leaves the registry's membership unchanged, so the meta it
\* persists lists the ids that were registered when Shutdown began.
C23_State ==
    \A t \in Goroutines :
        wk[t].op = "Shutdown" =>
          /\ DOMAIN dbMap = wk[t].began
          /\ \A i, j \in 1..Len(wk[t].shut) : wk[t].shut[i] = wk[t].shut[j] => i = j
          /\ Range(wk[t].shut) \subseteq wk[t].began
          /\ wk[t].pc \in {"snap", "write", "ret"} => Range(wk[t].shut) = wk[t].began
          /\ (wk[t].pc = "ret" /\ wk[t].ret = "nil") => readMeta = wk[t].began
C23_WriteLast ==
    \A t \in Goroutines :
        (wk[t].op = "Shutdown" /\ ~Returned(t) /\ Stepped(t) /\ metaFile' # metaFile)
        => Range(wk[t].shut) = wk[t].began /\ metaFile'.dbs = wk[t].began
C23_Shutdown == []C23_State /\ [][C23_WriteLast]_vars
\* three instances were registered, the first one's Shutdown failed, the others
\* were shut down all the same and the meta was persisted
C23_Witness ==
    \E t \in Goroutines :
        /\ wk[t].pc = "ret" /\ wk[t].call = "Shutdown" /\ wk[t].ret = "nil"
        /\ Len(wk[t].shut) = 3
        /\ inst[dbMap[wk[t].shut[1]]] = "failed"
        /\ inst[dbMap[wk[t].shut[2]]] = "shutdown"
        /\ readMeta = wk[t].began

\* request c is a CreateDatabase that has accepted an id and not yet returned
Creating(c) == cd[c].op = "create" /\ cd[c].pc \in {"alloc", "send", "meta"}

\* C24: database ids stay unique under concurrency: two CreateDatabase calls
\* running at the same time (their requesting node, and so their nonce stream,
\* being the same) never accept the same DatabaseID.
C24_UniqueIDs ==
    \A c1, c2 \in Calls :
        (c1 # c2 /\ Creating(c1) /\ Creating(c2)) => cd[c1].db # cd[c2].db

\* C25: for every interleaving of two concurrent Create calls for the same
\* database id, exactly one call returns success and the other returns an error,
\* and after both have returned the id is registered with the successful call's
\* instance, which has not been shut down, and the meta file contains the id.
C25_ExactlyOneCreateWins ==
    \A t, u \in Goroutines :
        (/\ t # u /\ wk[t].id = wk[u].id
         /\ wk[t].pc = "ret" /\ wk[t].call = "Create"
         /\ wk[u].pc = "ret" /\ wk[u].call = "Create"
         /\ wk[t].ret = "nil")
        => /\ wk[u].ret # "nil"
           /\ wk[t].id \in DOMAIN dbMap
           /\ dbMap[wk[t].id] = wk[t].db
           /\ inst[wk[t].db] = "live"
           /\ wk[t].id \in readMeta

\* C26: Commit(T) returns success only if the SQL engine committed the
\* transaction: when every buffered statement was executed and the engine's final
\* commit call fails, Commit does not return success, so a Commit that returns
\* success has made the statements it executed part of the committed data.
C26_Step ==
    \A t \in Threads :
        (/\ th[t].op = "Commit" /\ th[t].pc = "exec"
         /\ th'[t].pc = "ret" /\ th'[t].ret = "ok")
        => Range(th[t].trace) \subseteq committed'
C26_SuccessMeansCommitted == [][C26_Step]_vars

\* C27: DropDatabase sends each peer at most one Update RPC, the one carrying
\* op = DropDB for the requested id: when a peer's Drop RPC fails no second batch
\* (compensating or empty) is started, so no peer is called a second time.
C27_DropSendsOneBatch ==
    \A c \in Calls :
        cd[c].op = "drop" => cd[c].phase # 2 /\ cd[c].ch2 = <<>>

\* openDB caches the handle of DSN d under its filename
Cacheable(d) == d.valid /\ ~InMemoryPrivate(d)

\* C28: the process-wide connection cache never hands out a closed handle: for
\* every sequence of New and Close calls on cacheable filenames, a Storage New
\* returns has an open SQL handle, also when another Storage on the same filename
\* was closed earlier, and as long as its owner has not closed it no Close of
\* another Storage closes its handle.
C28_NoClosedHandle ==
    \A s \in DOMAIN storages :
        (Cacheable(storages[s].dsn) /\ ~storages[s].closed)
        => sqlDB[storages[s].db] = "open"

====
